---- MODULE Spec2Model ----
(***************************************************************************)
(* The image cache of EpisodeAlerts: ImageCacheService (the singleton that *)
(* keeps downloaded images under <cacheDirectory>/images/ and trims the    *)
(* directory when its tracked size passes MAX_CACHE_SIZE) and the          *)
(* CachedImage component, which downloads into the same directory on its   *)
(* own.                                                                    *)
(*                                                                         *)
(* Every async function is a task that advances one await at a time: a     *)
(* step is the effect of the awaited file-system, network or settings call *)
(* together with the synchronous code that follows it up to the next       *)
(* await. Tasks interleave only at these points, as on the JavaScript      *)
(* event loop.                                                             *)
(***************************************************************************)
EXTENDS Integers, Sequences, FiniteSets, TLC

(***************************************************************************)
(* Strings are sequences of one-character strings, so that split, replace, *)
(* lastIndexOf and substring are computed and not assumed.                 *)
(***************************************************************************)
LowerCase ==
  {"a","b","c","d","e","f","g","h","i","j","k","l","m",
   "n","o","p","q","r","s","t","u","v","w","x","y","z"}

UpperCase ==
  {"A","B","C","D","E","F","G","H","I","J","K","L","M",
   "N","O","P","Q","R","S","T","U","V","W","X","Y","Z"}

Digits == {"0","1","2","3","4","5","6","7","8","9"}

\* The character class [a-zA-Z0-9.] of the regular expression.
SafeChars == LowerCase \cup UpperCase \cup Digits \cup {"."}

\* s.lastIndexOf('/'), 1-based; 0 when s holds no '/'.
LastIndexOfSlash(s) ==
  LET at == {i \in 1..Len(s) : s[i] = "/"}
  IN  IF at = {} THEN 0 ELSE CHOOSE i \in at : \A j \in at : j <= i

\* parts[parts.length - 1] of url.split('/').
LastPart(url) == SubSeq(url, LastIndexOfSlash(url) + 1, Len(url))

\* A replace that replaces nothing.
ReplaceNothing(s) == s

\* replace(/[^a-zA-Z0-9.]/g, '_')
ReplaceUnsafe(s) == [i \in 1..Len(s) |-> IF s[i] \in SafeChars THEN s[i] ELSE "_"]

getFilenameFromUrl(url) == ReplaceUnsafe(LastPart(url))

\* CachedImage: uri.substring(uri.lastIndexOf('/') + 1), not sanitised.
CachedImageFilename(uri) == SubSeq(uri, LastIndexOfSlash(uri) + 1, Len(uri))

(***************************************************************************)
(* Sizes and limits.                                                       *)
(***************************************************************************)
MB == 1024 * 1024

MAX_CACHE_SIZE == 100 * 1024 * 1024

\* MAX_CACHE_SIZE * 0.7 (an integer: 73400320).
targetSize == (MAX_CACHE_SIZE * 7) \div 10

\* The sizes a downloaded body can have.
FileSizes == {30 * MB, 40 * MB}

\* The URLs the callers ask for: the empty one, two sizes of the same image
\* (same trailing segment), and two more images.
EmptyUrl == << >>

Urls ==
  { EmptyUrl,
    <<"s", "/", "a">>,
    <<"l", "/", "a">>,
    <<"s", "/", "b">>,
    <<"s", "/", "c">> }

\* The URLs whose key is derived one by one: every string of at most
\* MaxUrlLen characters over a letter of each case, a digit, the dot, the
\* slash, and two characters outside the class, one of them the placeholder.
MaxUrlLen == 3

KeyAlphabet == {"a", "Z", "7", ".", "/", "?", "_"}

KeyUrls == UNION {[1..n -> KeyAlphabet] : n \in 0..MaxUrlLen}

\* The number of injected failures (a deleteAsync, a makeDirectoryAsync, or
\* a getItem or setItem of the settings store that rejects) in a run.
MaxFailures == 1

(***************************************************************************)
(* State.                                                                  *)
(***************************************************************************)
VARIABLES
  dirExists,   \* whether <cacheDirectory>/images/ exists
  files,       \* the files in it, oldest write first: <<[name, size], ...>>
  stored,      \* AsyncStorage's value under IMAGE_CACHE_ENABLED_KEY
  isEnabled,   \* ImageCacheService.isEnabled
  cacheSize,   \* ImageCacheService.cacheSize
  task,        \* the pending async calls, one record per task
  failures,    \* storage failures injected so far
  env,         \* the run's universe, fixed at the start: its callers, the
               \* URLs they ask for, the sizes of the bodies, and whether
               \* callers call while the constructor's calls are pending
  app,         \* UserPreferencesService and AnalyticsService: their fields,
               \* what they keep in AsyncStorage, and their pending call
  watch        \* WatchlistService: what AsyncStorage holds under
               \* WATCHLIST_STORAGE_KEY, and the pending calls of the screens

vars ==
  <<dirExists, files, stored, isEnabled, cacheSize, task, failures, env, app, watch>>

\* The variables of the image cache.
cacheVars == <<dirExists, files, stored, isEnabled, cacheSize, task, failures, env>>

\* The constructor's two un-awaited calls, and two callers of the UI.
InitTasks == {"setup", "load"}

UiTasks == {"ui1", "ui2"}

Tasks == InitTasks \cup UiTasks

\* A task: where it waits (pc), the call it runs and its locals, and, once
\* the call has returned (pc = "done"), what it returned: kind "remote" with
\* the URL, "local" with the cached file's name, "error", "void", "threw",
\* "flag" (the boolean is in flag) or "number".
\* again and first belong to the second call of a caller that resolves twice
\* in a row: first is what the first call was asked, returned and fetched.
\* base is cacheSize as it was when a getCachedImageUri call started. seen
\* belongs to a caller that calls setEnabled twice in a row with the same
\* value: how the first call ended and the state it left.
NoResult == [kind |-> "none", ref |-> << >>, fetched |-> FALSE, url |-> << >>]

Idle ==
  [pc |-> "idle", op |-> "none", url |-> << >>, flag |-> FALSE,
   names |-> << >>, infos |-> << >>, idx |-> 0, cur |-> 0,
   fetched |-> FALSE, status |-> 0, trimmed |-> FALSE, alone |-> TRUE,
   kind |-> "none", ref |-> << >>, again |-> FALSE, first |-> NoResult,
   base |-> 0, seen |-> << >>]

InFlight(t) == task[t].pc # "idle"

Quiescent == \A t \in Tasks : ~InFlight(t)

\* Caller t may start a call.
CanCall(t) ==
  /\ t \in env.callers
  /\ ~InFlight(t)
  /\ env.race \/ \A i \in InitTasks : ~InFlight(i)

(***************************************************************************)
(* The file system (expo-file-system) as the code uses it.                 *)
(***************************************************************************)
FileNames(fs) == [i \in 1..Len(fs) |-> fs[i].name]

\* getInfoAsync(IMAGE_CACHE_DIR + name).exists; the empty name is the
\* directory itself.
Exists(name) ==
  IF name = << >> THEN dirExists
  ELSE \E i \in 1..Len(files) : files[i].name = name

\* getInfoAsync(path, {size: true}).size of an existing file.
SizeOf(name) ==
  LET i == CHOOSE j \in 1..Len(files) : files[j].name = name IN files[i].size

RemoveFile(fs, name) == SelectSeq(fs, LAMBDA f : f.name # name)

\* downloadAsync writes (or overwrites) the file; it is then the newest.
WriteFile(fs, name, size) ==
  Append(RemoveFile(fs, name), [name |-> name, size |-> size])

RECURSIVE SumSizes(_)
SumSizes(fs) == IF fs = << >> THEN 0 ELSE Head(fs).size + SumSizes(Tail(fs))

\* downloadAsync can write to IMAGE_CACHE_DIR + name.
CanWrite(name) == dirExists /\ name # << >>

(***************************************************************************)
(* Starting and finishing a call.                                          *)
(***************************************************************************)
\* t starts op: it runs alone unless another call is pending, and a call
\* that was running alone no longer is.
Started(t, op, url, flag, pc) ==
  [u \in Tasks |->
     IF u = t
     THEN [Idle EXCEPT !.pc = pc, !.op = op, !.url = url, !.flag = flag,
                       !.alone = \A v \in Tasks \ {t} : ~InFlight(v)]
     ELSE IF InFlight(u) THEN [task[u] EXCEPT !.alone = FALSE]
     ELSE task[u]]

Begin(t, op, url, flag, pc) == task' = Started(t, op, url, flag, pc)

\* The guard without its test of isEnabled.
PassThroughUrlOnly(enabled, url) == url = EmptyUrl

\* The guard without its test of url.
PassThroughFlagOnly(enabled, url) == ~enabled

\* if (!this.isEnabled || !url) return url;
PassThrough(enabled, url) == ~enabled \/ url = EmptyUrl

\* t's call returns to its caller, and trimCache's locals are gone. The
\* constructor awaits neither of its calls.
Returned(r, kind, ref) ==
  IF r.op \in {"setup", "load"} THEN Idle
  ELSE [r EXCEPT !.pc = "done", !.kind = kind, !.ref = ref,
                 !.names = << >>, !.infos = << >>, !.idx = 0, !.cur = 0]

Finish(t, r, kind, ref) == task' = [task EXCEPT ![t] = Returned(r, kind, ref)]

\* The caller has taken the result.
Return(t) ==
  /\ task[t].pc = "done"
  /\ task' = [task EXCEPT ![t] = Idle]
  /\ UNCHANGED <<dirExists, files, stored, isEnabled, cacheSize, failures, env, app, watch>>

Goto(t, r, pc) == task' = [task EXCEPT ![t] = [r EXCEPT !.pc = pc]]

(***************************************************************************)
(* UserPreferencesService and AnalyticsService on a fresh install, before  *)
(* either is initialized.                                                  *)
(***************************************************************************)
\* DEFAULT_PREFERENCES.analyticsEnabled
DefaultAnalyticsEnabled == TRUE

\* The fields the two singletons start with.
Launched ==
  [pc |-> "idle", op |-> "none", flag |-> FALSE,
   prefsInitialized |-> FALSE, prefsAnalytics |-> DefaultAnalyticsEnabled,
   subscribed |-> FALSE, analyticsEnabled |-> TRUE, initialized |-> FALSE,
   events |-> << >>]

\* With nothing in AsyncStorage: no stored preference, no stored event. choice
\* is what the user last chose with the analytics switch, "none" until then.
Installed ==
  [pc |-> "idle", op |-> "none", flag |-> FALSE,
   prefsInitialized |-> FALSE, prefsAnalytics |-> DefaultAnalyticsEnabled,
   subscribed |-> FALSE, analyticsEnabled |-> TRUE, initialized |-> FALSE,
   events |-> << >>,
   analyticsStored |-> "null", savedEvents |-> << >>, choice |-> "none"]

(***************************************************************************)
(* WatchlistService on a fresh install. The service has no field: the list *)
(* lives in AsyncStorage, and every call reads it and writes it back.      *)
(***************************************************************************)
\* TVShow.id of the shows the user adds and removes.
ShowIds == {1, 2}

\* The handlers of the screens that call the service: the toggle of a card
\* or of the details screen, and the watchlist tab.
WatchCallers == {"w1", "w2"}

\* A handler with no call pending.
NoCall == [pc |-> "idle", op |-> "none", show |-> 0, updated |-> << >>, result |-> FALSE]

\* Nothing is stored under the key. added[s] says that an addToWatchlist of s
\* has returned true and that no removeFromWatchlist(s) or clearWatchlist was
\* pending then or has been called since; removed[s] likewise for a
\* removeFromWatchlist(s) that returned true and the addToWatchlist calls of s.
NoWatchlist ==
  [present |-> FALSE, shows |-> << >>,
   call |-> [c \in WatchCallers |-> NoCall],
   added |-> [s \in ShowIds |-> FALSE],
   removed |-> [s \in ShowIds |-> FALSE]]


(* called setupCacheDirectory() and loadSettings() without awaiting them.  *)
(***************************************************************************)
Constructed ==
  [t \in Tasks |->
     IF t = "setup" THEN [Idle EXCEPT !.pc = "i_stat", !.op = "setup", !.alone = FALSE]
     ELSE IF t = "load" THEN [Idle EXCEPT !.pc = "g_getItem", !.op = "load", !.alone = FALSE]
     ELSE Idle]

\* A fresh install: no cache directory, no stored setting.
Init ==
  /\ dirExists = FALSE
  /\ files = << >>
  /\ stored = "null"
  /\ isEnabled = TRUE
  /\ cacheSize = 0
  /\ task = Constructed
  /\ failures = 0
  /\ env = [callers |-> {"ui1"}, urls |-> Urls, sizes |-> FileSizes, race |-> FALSE]
  /\ app = Installed
  /\ watch = NoWatchlist

\* The app is started again: memory is reset, the disk and the settings stay.
Restart ==
  /\ Quiescent
  /\ isEnabled' = TRUE
  /\ cacheSize' = 0
  /\ task' = Constructed
  /\ UNCHANGED <<dirExists, files, stored, failures, env, app, watch>>

\* setupCacheDirectory: getInfoAsync(IMAGE_CACHE_DIR) answers.
SetupStat(t) ==
  /\ task[t].pc = "i_stat"
  /\ IF dirExists THEN Finish(t, task[t], "void", << >>)
     ELSE Goto(t, task[t], "i_mkdir")
  /\ UNCHANGED <<dirExists, files, stored, isEnabled, cacheSize, failures, env, app, watch>>

\* setupCacheDirectory: makeDirectoryAsync is done.
SetupMkdir(t) ==
  /\ task[t].pc = "i_mkdir"
  /\ dirExists' = TRUE
  /\ Finish(t, task[t], "void", << >>)
  /\ UNCHANGED <<files, stored, isEnabled, cacheSize, failures, env, app, watch>>

\* The flag read as "true" only.
FlagOnlyIfTrue(cacheEnabled) == cacheEnabled = "true"

\* this.isEnabled = cacheEnabled !== 'false'
FlagFromStored(cacheEnabled) == cacheEnabled # "false"

\* loadSettings: AsyncStorage.getItem answers; calculateCacheSize is called.
LoadGetItem(t) ==
  /\ task[t].pc = "g_getItem"
  /\ isEnabled' = FlagFromStored(stored)
  /\ Goto(t, task[t], "k_stat")
  /\ UNCHANGED <<dirExists, files, stored, cacheSize, failures, env, app, watch>>

\* loadSettings: AsyncStorage.getItem rejects: the catch logs, and
\* loadSettings returns without calling calculateCacheSize.
LoadGetItemThrows(t) ==
  /\ task[t].pc = "g_getItem"
  /\ failures < MaxFailures
  /\ failures' = failures + 1
  /\ Finish(t, [task[t] EXCEPT !.status = -1], "void", << >>)
  /\ UNCHANGED <<dirExists, files, stored, isEnabled, cacheSize, env, app, watch>>

\* getInfoAsync(IMAGE_CACHE_DIR, {size: true}).size: the bytes in the directory.
DirSize == IF dirExists THEN SumSizes(files) ELSE 0

\* calculateCacheSize: getInfoAsync answers. It ends loadSettings, trimCache
\* (inside a resolve) or a call of its own.
CalcStat(t) ==
  /\ task[t].pc = "k_stat"
  /\ cacheSize' = DirSize
  /\ IF task[t].op = "resolve"
     THEN Finish(t, task[t], "local", getFilenameFromUrl(task[t].url))
     ELSE Finish(t, task[t], "void", << >>)
  /\ UNCHANGED <<dirExists, files, stored, isEnabled, failures, env, app, watch>>

\* A caller calls calculateCacheSize (the settings screen does).
CalcCall(t) ==
  /\ CanCall(t)
  /\ Begin(t, "calculateCacheSize", << >>, FALSE, "k_stat")
  /\ UNCHANGED <<dirExists, files, stored, isEnabled, cacheSize, failures, env, app, watch>>

(***************************************************************************)
(* getCachedImageUri(url), the spec's resolve.                             *)
(***************************************************************************)
\* The call returns url at once: no await is reached.
ResolvePassThrough(t, url) ==
  /\ CanCall(t)
  /\ PassThrough(isEnabled, url)
  /\ LET started == Started(t, "resolve", url, FALSE, "idle")
     IN  task' = [started EXCEPT ![t] = Returned(started[t], "remote", url)]
  /\ UNCHANGED <<dirExists, files, stored, isEnabled, cacheSize, failures, env, app, watch>>

\* The call derives the file name and asks getInfoAsync(filePath).
ResolveCall(t, url) ==
  /\ CanCall(t)
  /\ ~PassThrough(isEnabled, url)
  /\ LET started == Started(t, "resolve", url, FALSE, "r_stat")
     IN  task' = [started EXCEPT ![t] = [started[t] EXCEPT !.base = cacheSize]]
  /\ UNCHANGED <<dirExists, files, stored, isEnabled, cacheSize, failures, env, app, watch>>

\* The caller whose getCachedImageUri(url) has returned calls it again at
\* once with the same url: the second call returns at once or asks
\* getInfoAsync(filePath).
ResolveAgain(t) ==
  /\ task[t].pc = "done" /\ task[t].op = "resolve" /\ ~task[t].again
  /\ LET r == task[t]
         second == [Idle EXCEPT !.op = "resolve", !.url = r.url, !.again = TRUE,
                                !.alone = r.alone, !.base = cacheSize,
                                !.first = [kind |-> r.kind, ref |-> r.ref,
                                           fetched |-> r.fetched, url |-> r.url]]
     IN  task' = [task EXCEPT ![t] =
                    IF PassThrough(isEnabled, r.url)
                    THEN [second EXCEPT !.pc = "done", !.kind = "remote", !.ref = r.url]
                    ELSE [second EXCEPT !.pc = "r_stat"]]
  /\ UNCHANGED <<dirExists, files, stored, isEnabled, cacheSize, failures, env, app, watch>>

\* The caller whose getCachedImageUri has returned calls it at once with
\* another url: a screen shows the same poster_path in two sizes, w185 and
\* w342, one after the other.
ResolveOther(t, url) ==
  /\ task[t].pc = "done" /\ task[t].op = "resolve" /\ ~task[t].again
  /\ url # task[t].url
  /\ LET r == task[t]
         second == [Idle EXCEPT !.op = "resolve", !.url = url, !.again = TRUE,
                                !.alone = r.alone, !.base = cacheSize,
                                !.first = [kind |-> r.kind, ref |-> r.ref,
                                           fetched |-> r.fetched, url |-> r.url]]
     IN  task' = [task EXCEPT ![t] =
                    IF PassThrough(isEnabled, url)
                    THEN [second EXCEPT !.pc = "done", !.kind = "remote", !.ref = url]
                    ELSE [second EXCEPT !.pc = "r_stat"]]
  /\ UNCHANGED <<dirExists, files, stored, isEnabled, cacheSize, failures, env, app, watch>>

\* getInfoAsync(filePath) answers: a hit returns fileInfo.uri, a miss starts
\* downloadAsync.
ResolveStat(t) ==
  /\ task[t].pc = "r_stat"
  /\ IF Exists(getFilenameFromUrl(task[t].url))
     THEN Finish(t, task[t], "local", getFilenameFromUrl(task[t].url))
     ELSE Goto(t, [task[t] EXCEPT !.fetched = TRUE], "r_download")
  /\ UNCHANGED <<dirExists, files, stored, isEnabled, cacheSize, failures, env, app, watch>>

\* downloadAsync resolves: the response body is in the file, whatever the
\* HTTP status (CachedImage tests downloadResult.status, so a response that
\* is not 200 resolves too). getInfoAsync(filePath, {size: true}) is next.
ResolveDownloaded(t, size, status) ==
  /\ task[t].pc = "r_download"
  /\ CanWrite(getFilenameFromUrl(task[t].url))
  /\ files' = WriteFile(files, getFilenameFromUrl(task[t].url), size)
  /\ Goto(t, [task[t] EXCEPT !.status = status], "r_stat2")
  /\ UNCHANGED <<dirExists, stored, isEnabled, cacheSize, failures, env, app, watch>>

\* downloadAsync rejects (no connection, no directory to write to): the
\* catch logs and returns url.
ResolveDownloadThrows(t) ==
  /\ task[t].pc = "r_download"
  /\ Finish(t, [task[t] EXCEPT !.status = -1], "remote", task[t].url)
  /\ UNCHANGED <<dirExists, files, stored, isEnabled, cacheSize, failures, env, app, watch>>

\* updateCacheSize: this.cacheSize += newFileSize
AddToCacheSize(size, newFileSize) == size + newFileSize

\* The test with >= for >.
AtOrOverLimit(size) == size >= MAX_CACHE_SIZE

\* updateCacheSize: if (this.cacheSize > MAX_CACHE_SIZE) await this.trimCache()
OverLimit(size) == size > MAX_CACHE_SIZE

\* The second getInfoAsync answers; if the file is there updateCacheSize adds
\* its size and, over the limit, calls trimCache, which asks
\* readDirectoryAsync. Otherwise the call returns downloadResult.uri.
ResolveStat2(t) ==
  /\ task[t].pc = "r_stat2"
  /\ LET name == getFilenameFromUrl(task[t].url)
         size == IF Exists(name) THEN AddToCacheSize(cacheSize, SizeOf(name))
                 ELSE cacheSize
     IN  /\ cacheSize' = size
         /\ IF Exists(name) /\ OverLimit(size)
            THEN Goto(t, [task[t] EXCEPT !.trimmed = TRUE], "t_readdir")
            ELSE Finish(t, task[t], "local", name)
  /\ UNCHANGED <<dirExists, files, stored, isEnabled, failures, env, app, watch>>

(***************************************************************************)
(* trimCache, run inside the resolve whose write passed the limit. When it *)
(* returns, getCachedImageUri returns downloadResult.uri.                  *)
(***************************************************************************)
\* readDirectoryAsync answers (it rejects when the directory is gone: the
\* catch ends trimCache). An empty listing returns at once.
TrimReadDir(t) ==
  /\ task[t].pc = "t_readdir"
  /\ IF ~dirExists \/ files = << >>
     THEN Finish(t, task[t], "local", getFilenameFromUrl(task[t].url))
     ELSE Goto(t, [task[t] EXCEPT !.names = FileNames(files), !.idx = 1], "t_stat")
  /\ UNCHANGED <<dirExists, files, stored, isEnabled, cacheSize, failures, env, app, watch>>

\* modificationTime is Date.now() - Math.random() * 86400000 for each file,
\* so fileInfos.sort(...) can leave the files in any order.
SortByModificationTime(infos) ==
  {[i \in 1..Len(infos) |-> infos[p[i]]] : p \in Permutations(1..Len(infos))}

\* if (currentSize <= targetSize) break;
UnderTarget(currentSize) == currentSize <= targetSize

\* The head of the delete loop: the pending await is deleteAsync of
\* fileInfos[idx], or calculateCacheSize's getInfoAsync after the loop.
TrimLoop(r) ==
  IF r.idx <= Len(r.infos) /\ ~UnderTarget(r.cur)
  THEN [r EXCEPT !.pc = "t_delete"]
  ELSE [r EXCEPT !.pc = "k_stat"]

\* getInfoAsync of the idx-th listed file answers; a file that is there is
\* pushed. After the last one the list is sorted, currentSize is read from
\* this.cacheSize and the delete loop starts.
TrimStat(t) ==
  /\ task[t].pc = "t_stat"
  /\ LET r == task[t]
         name == r.names[r.idx]
         infos == IF Exists(name)
                  THEN Append(r.infos, [name |-> name, size |-> SizeOf(name)])
                  ELSE r.infos
     IN  IF r.idx < Len(r.names)
         THEN task' = [task EXCEPT ![t] = [r EXCEPT !.infos = infos, !.idx = r.idx + 1]]
         ELSE \E sorted \in SortByModificationTime(infos) :
                task' = [task EXCEPT ![t] =
                           TrimLoop([r EXCEPT !.infos = sorted, !.idx = 1,
                                              !.cur = cacheSize])]
  /\ UNCHANGED <<dirExists, files, stored, isEnabled, cacheSize, failures, env, app, watch>>

\* deleteAsync(fileInfo.uri) is done: currentSize -= fileInfo.size, and the
\* loop goes on.
TrimDelete(t) ==
  /\ task[t].pc = "t_delete"
  /\ LET r == task[t]
         victim == r.infos[r.idx]
     IN  /\ Exists(victim.name)
         /\ files' = RemoveFile(files, victim.name)
         /\ task' = [task EXCEPT ![t] =
                       TrimLoop([r EXCEPT !.idx = r.idx + 1,
                                          !.cur = r.cur - victim.size])]
  /\ UNCHANGED <<dirExists, stored, isEnabled, cacheSize, failures, env, app, watch>>

\* deleteAsync rejects (the file is gone, or the storage fails): the catch
\* around the whole of trimCache logs, and trimCache returns.
TrimDeleteThrows(t) ==
  /\ task[t].pc = "t_delete"
  /\ \/ ~Exists(task[t].infos[task[t].idx].name) /\ UNCHANGED failures
     \/ failures < MaxFailures /\ failures' = failures + 1
  /\ Finish(t, task[t], "local", getFilenameFromUrl(task[t].url))
  /\ UNCHANGED <<dirExists, files, stored, isEnabled, cacheSize, env, app, watch>>

(***************************************************************************)
(* setEnabled and clearCache.                                              *)
(***************************************************************************)
\* enabled.toString()
BoolToString(flag) == IF flag THEN "true" ELSE "false"

\* The call sets this.isEnabled and asks AsyncStorage.setItem.
SetEnabledCall(t, flag) ==
  /\ CanCall(t)
  /\ isEnabled' = flag
  /\ Begin(t, "setEnabled", << >>, flag, "s_setItem")
  /\ UNCHANGED <<dirExists, files, stored, cacheSize, failures, env, app, watch>>

\* setItem is done; disabling goes on into clearCache, which asks
\* getInfoAsync(IMAGE_CACHE_DIR).
SetEnabledStored(t) ==
  /\ task[t].pc = "s_setItem"
  /\ stored' = BoolToString(task[t].flag)
  /\ IF task[t].flag THEN Finish(t, task[t], "void", << >>)
     ELSE Goto(t, task[t], "c_stat")
  /\ UNCHANGED <<dirExists, files, isEnabled, cacheSize, failures, env, app, watch>>

\* setItem rejects: setEnabled has no try/catch, so the rejection reaches
\* the caller; clearCache is not called.
SetEnabledThrows(t) ==
  /\ task[t].pc = "s_setItem"
  /\ failures < MaxFailures
  /\ failures' = failures + 1
  /\ Finish(t, task[t], "threw", << >>)
  /\ UNCHANGED <<dirExists, files, stored, isEnabled, cacheSize, env, app, watch>>

\* What setEnabled can change: the flag, the stored flag, the directory and
\* the counter.
CacheState == <<isEnabled, stored, dirExists, files, cacheSize>>

\* The caller whose setEnabled(flag) has returned calls setEnabled(flag)
\* again at once.
SetEnabledAgain(t) ==
  /\ task[t].pc = "done" /\ task[t].op = "setEnabled"
  /\ task[t].seen = << >>
  /\ isEnabled' = task[t].flag
  /\ task' = [task EXCEPT ![t] =
                [Idle EXCEPT !.pc = "s_setItem", !.op = "setEnabled",
                             !.flag = task[t].flag, !.alone = task[t].alone,
                             !.seen = <<task[t].kind, CacheState>>]]
  /\ UNCHANGED <<dirExists, files, stored, cacheSize, failures, env, app, watch>>

\* A caller calls clearCache (the settings screen's Clear button).
ClearCall(t) ==
  /\ CanCall(t)
  /\ Begin(t, "clearCache", << >>, FALSE, "c_stat")
  /\ UNCHANGED <<dirExists, files, stored, isEnabled, cacheSize, failures, env, app, watch>>

\* clearCache: getInfoAsync answers; without a directory only the counter
\* is reset.
ClearStat(t) ==
  /\ task[t].pc = "c_stat"
  /\ IF dirExists
     THEN Goto(t, task[t], "c_delete") /\ UNCHANGED cacheSize
     ELSE cacheSize' = 0 /\ Finish(t, task[t], "void", << >>)
  /\ UNCHANGED <<dirExists, files, stored, isEnabled, failures, env, app, watch>>

\* clearCache: deleteAsync(IMAGE_CACHE_DIR, {idempotent: true}) is done.
ClearDelete(t) ==
  /\ task[t].pc = "c_delete"
  /\ dirExists' = FALSE
  /\ files' = << >>
  /\ Goto(t, task[t], "c_mkdir")
  /\ UNCHANGED <<stored, isEnabled, cacheSize, failures, env, app, watch>>

\* clearCache: makeDirectoryAsync is done; this.cacheSize = 0.
ClearMkdir(t) ==
  /\ task[t].pc = "c_mkdir"
  /\ dirExists' = TRUE
  /\ cacheSize' = 0
  /\ Finish(t, task[t], "void", << >>)
  /\ UNCHANGED <<files, stored, isEnabled, failures, env, app, watch>>

\* clearCache: makeDirectoryAsync rejects: the catch logs, and neither the
\* directory nor the counter is reset.
ClearMkdirThrows(t) ==
  /\ task[t].pc = "c_mkdir"
  /\ failures < MaxFailures
  /\ failures' = failures + 1
  /\ Finish(t, task[t], "void", << >>)
  /\ UNCHANGED <<dirExists, files, stored, isEnabled, cacheSize, env, app, watch>>

(***************************************************************************)
(* The two getters: they return at once and assign nothing.                *)
(***************************************************************************)
\* Math.round(x * 100) of x = size / 1024 / 1024: the size in hundredths of
\* a megabyte, a half rounded up (the whole megabytes apart, so that no
\* product passes 2^31).
RoundedHundredths(size) ==
  100 * (size \div MB) + (2 * 100 * (size % MB) + MB) \div (2 * MB)

\* A caller calls isImageCacheEnabled(): return this.isEnabled.
IsImageCacheEnabledCall(t) ==
  /\ CanCall(t)
  /\ LET started == Started(t, "isImageCacheEnabled", << >>, isEnabled, "idle")
     IN  task' = [started EXCEPT ![t] = Returned(started[t], "flag", << >>)]
  /\ UNCHANGED <<dirExists, files, stored, isEnabled, cacheSize, failures, env, app, watch>>

\* A caller calls getCacheSizeInMB(); the result is kept in hundredths.
GetCacheSizeInMBCall(t) ==
  /\ CanCall(t)
  /\ LET started == Started(t, "getCacheSizeInMB", << >>, FALSE, "idle")
     IN  task' = [started EXCEPT
                    ![t] = Returned(started[t], "number",
                                    <<RoundedHundredths(cacheSize)>>)]
  /\ UNCHANGED <<dirExists, files, stored, isEnabled, cacheSize, failures, env, app, watch>>

(***************************************************************************)
(* CachedImage's loadImage(uri): the component's own download into the     *)
(* same directory. It never touches cacheSize.                             *)
(***************************************************************************)
\* Without a uri the component shows the error view; with the cache
\* disabled it shows the uri itself.
LoadImageDirect(t, uri) ==
  /\ CanCall(t)
  /\ uri = EmptyUrl \/ ~isEnabled
  /\ LET started == Started(t, "loadImage", uri, FALSE, "idle")
     IN  task' = [started EXCEPT
                    ![t] = Returned(started[t],
                                    IF uri = EmptyUrl THEN "error" ELSE "remote", uri)]
  /\ UNCHANGED <<dirExists, files, stored, isEnabled, cacheSize, failures, env, app, watch>>

\* Otherwise it asks getInfoAsync(cacheDir).
LoadImageCall(t, uri) ==
  /\ CanCall(t)
  /\ uri # EmptyUrl /\ isEnabled
  /\ Begin(t, "loadImage", uri, FALSE, "l_dirstat")
  /\ UNCHANGED <<dirExists, files, stored, isEnabled, cacheSize, failures, env, app, watch>>

\* getInfoAsync(cacheDir) answers.
LoadImageDirStat(t) ==
  /\ task[t].pc = "l_dirstat"
  /\ Goto(t, task[t], IF dirExists THEN "l_stat" ELSE "l_mkdir")
  /\ UNCHANGED <<dirExists, files, stored, isEnabled, cacheSize, failures, env, app, watch>>

\* makeDirectoryAsync(cacheDir, {intermediates: true}) is done.
LoadImageMkdir(t) ==
  /\ task[t].pc = "l_mkdir"
  /\ dirExists' = TRUE
  /\ Goto(t, task[t], "l_stat")
  /\ UNCHANGED <<files, stored, isEnabled, cacheSize, failures, env, app, watch>>

\* getInfoAsync(cacheFilePath) answers: the file is shown, or downloaded.
LoadImageStat(t) ==
  /\ task[t].pc = "l_stat"
  /\ IF Exists(CachedImageFilename(task[t].url))
     THEN Finish(t, task[t], "local", CachedImageFilename(task[t].url))
     ELSE Goto(t, [task[t] EXCEPT !.fetched = TRUE], "l_download")
  /\ UNCHANGED <<dirExists, files, stored, isEnabled, cacheSize, failures, env, app, watch>>

\* downloadAsync resolves: with status 200 the file is shown, with another
\* status the uri is (the body stays in the file).
LoadImageDownloaded(t, size, status) ==
  /\ task[t].pc = "l_download"
  /\ CanWrite(CachedImageFilename(task[t].url))
  /\ files' = WriteFile(files, CachedImageFilename(task[t].url), size)
  /\ IF status = 200
     THEN Finish(t, [task[t] EXCEPT !.status = status], "local",
                 CachedImageFilename(task[t].url))
     ELSE Finish(t, [task[t] EXCEPT !.status = status], "remote", task[t].url)
  /\ UNCHANGED <<dirExists, stored, isEnabled, cacheSize, failures, env, app, watch>>

\* downloadAsync rejects: the catch falls back to the uri.
LoadImageDownloadThrows(t) ==
  /\ task[t].pc = "l_download"
  /\ Finish(t, [task[t] EXCEPT !.status = -1], "remote", task[t].url)
  /\ UNCHANGED <<dirExists, files, stored, isEnabled, cacheSize, failures, env, app, watch>>

(***************************************************************************)
(* The specification.                                                      *)
(***************************************************************************)
\* The HTTP statuses a download resolves with: 200, and one that is not.
Statuses == {200, 404}

Next ==
  \/ Restart
  \/ \E t \in Tasks :
       \/ SetupStat(t)
       \/ SetupMkdir(t)
       \/ LoadGetItem(t)
       \/ LoadGetItemThrows(t)
       \/ CalcStat(t)
       \/ CalcCall(t)
       \/ Return(t)
       \/ \E url \in env.urls : ResolvePassThrough(t, url)
       \/ \E url \in env.urls : ResolveCall(t, url)
       \/ ResolveAgain(t)
       \/ ResolveStat(t)
       \/ \E size \in env.sizes, status \in Statuses : ResolveDownloaded(t, size, status)
       \/ ResolveDownloadThrows(t)
       \/ ResolveStat2(t)
       \/ TrimReadDir(t)
       \/ TrimStat(t)
       \/ TrimDelete(t)
       \/ TrimDeleteThrows(t)
       \/ \E flag \in BOOLEAN : SetEnabledCall(t, flag)
       \/ SetEnabledStored(t)
       \/ SetEnabledThrows(t)
       \/ SetEnabledAgain(t)
       \/ ClearCall(t)
       \/ ClearStat(t)
       \/ ClearDelete(t)
       \/ ClearMkdir(t)
       \/ ClearMkdirThrows(t)
       \/ IsImageCacheEnabledCall(t)
       \/ GetCacheSizeInMBCall(t)
       \/ \E uri \in env.urls : LoadImageDirect(t, uri)
       \/ \E uri \in env.urls : LoadImageCall(t, uri)
       \/ LoadImageDirStat(t)
       \/ LoadImageMkdir(t)
       \/ LoadImageStat(t)
       \/ \E size \in env.sizes, status \in Statuses : LoadImageDownloaded(t, size, status)
       \/ LoadImageDownloadThrows(t)

Spec == Init /\ [][Next]_vars

(***************************************************************************)
(* Two callers whose getCachedImageUri calls overlap: the screens call the *)
(* singleton from independent async handlers. They ask for one image,      *)
(* whose body has one of two sizes; two bodies of the larger size pass     *)
(* MAX_CACHE_SIZE.                                                         *)
(***************************************************************************)
ConcUrls == { <<"s", "/", "a">> }

ConcSizes == {40 * MB, 60 * MB}

InitConc ==
  /\ dirExists = FALSE
  /\ files = << >>
  /\ stored = "null"
  /\ isEnabled = TRUE
  /\ cacheSize = 0
  /\ task = Constructed
  /\ failures = 0
  /\ env = [callers |-> UiTasks, urls |-> ConcUrls, sizes |-> ConcSizes, race |-> FALSE]
  /\ app = Installed
  /\ watch = NoWatchlist

\* The callers only resolve, each call once; nothing else is called and the
\* app is not restarted.
NextConc ==
  \E t \in Tasks :
    \/ SetupStat(t)
    \/ SetupMkdir(t)
    \/ LoadGetItem(t)
    \/ CalcStat(t)
    \/ Return(t)
    \/ \E url \in env.urls : ResolveCall(t, url)
    \/ ResolveStat(t)
    \/ \E size \in env.sizes, status \in Statuses : ResolveDownloaded(t, size, status)
    \/ ResolveDownloadThrows(t)
    \/ ResolveStat2(t)
    \/ TrimReadDir(t)
    \/ TrimStat(t)
    \/ TrimDelete(t)
    \/ TrimDeleteThrows(t)

SpecConc == InitConc /\ [][NextConc]_vars

(***************************************************************************)
(* One caller and one URL, any of KeyUrls: the key getFilenameFromUrl      *)
(* derives is the name of the file the call writes and the reference it    *)
(* returns. 30 MB never reaches the limit, so trimCache is not called.     *)
(***************************************************************************)
InitKey ==
  /\ dirExists = FALSE
  /\ files = << >>
  /\ stored = "null"
  /\ isEnabled = TRUE
  /\ cacheSize = 0
  /\ task = Constructed
  /\ failures = 0
  /\ \E url \in KeyUrls :
       env = [callers |-> {"ui1"}, urls |-> {url}, sizes |-> {30 * MB}, race |-> FALSE]
  /\ app = Installed
  /\ watch = NoWatchlist

NextKey ==
  \E t \in Tasks :
    \/ SetupStat(t)
    \/ SetupMkdir(t)
    \/ LoadGetItem(t)
    \/ CalcStat(t)
    \/ Return(t)
    \/ \E url \in env.urls : ResolvePassThrough(t, url)
    \/ \E url \in env.urls : ResolveCall(t, url)
    \/ ResolveAgain(t)
    \/ ResolveStat(t)
    \/ \E size \in env.sizes, status \in Statuses : ResolveDownloaded(t, size, status)
    \/ ResolveDownloadThrows(t)
    \/ ResolveStat2(t)

SpecKey == InitKey /\ [][NextKey]_vars

(***************************************************************************)
(* One caller that asks for an image in two sizes (the same trailing       *)
(* segment under two prefixes) and for one more image, one call after the  *)
(* other. Two bodies of the larger size pass MAX_CACHE_SIZE.               *)
(***************************************************************************)
CollideUrls == { <<"s", "/", "a">>, <<"l", "/", "a">>, <<"s", "/", "b">> }

CollideSizes == {30 * MB, 60 * MB}

InitCollide ==
  /\ dirExists = FALSE
  /\ files = << >>
  /\ stored = "null"
  /\ isEnabled = TRUE
  /\ cacheSize = 0
  /\ task = Constructed
  /\ failures = 0
  /\ env = [callers |-> {"ui1"}, urls |-> CollideUrls, sizes |-> CollideSizes,
            race |-> FALSE]
  /\ app = Installed
  /\ watch = NoWatchlist

NextCollide ==
  \E t \in Tasks :
    \/ SetupStat(t)
    \/ SetupMkdir(t)
    \/ LoadGetItem(t)
    \/ CalcStat(t)
    \/ Return(t)
    \/ \E url \in env.urls : ResolveCall(t, url)
    \/ \E url \in env.urls : ResolveOther(t, url)
    \/ ResolveStat(t)
    \/ \E size \in env.sizes, status \in Statuses : ResolveDownloaded(t, size, status)
    \/ ResolveDownloadThrows(t)
    \/ ResolveStat2(t)
    \/ TrimReadDir(t)
    \/ TrimStat(t)
    \/ TrimDelete(t)

SpecCollide == InitCollide /\ [][NextCollide]_vars

(***************************************************************************)
(* Two callers, one image: a screen resolves the image while the settings  *)
(* screen switches the cache off or on. No storage failure is injected.    *)
(***************************************************************************)
InitDisable ==
  /\ dirExists = FALSE
  /\ files = << >>
  /\ stored = "null"
  /\ isEnabled = TRUE
  /\ cacheSize = 0
  /\ task = Constructed
  /\ failures = 0
  /\ env = [callers |-> UiTasks, urls |-> ConcUrls, sizes |-> {30 * MB}, race |-> FALSE]
  /\ app = Installed
  /\ watch = NoWatchlist

NextDisable ==
  \E t \in Tasks :
    \/ SetupStat(t)
    \/ SetupMkdir(t)
    \/ LoadGetItem(t)
    \/ CalcStat(t)
    \/ Return(t)
    \/ \E url \in env.urls : ResolvePassThrough(t, url)
    \/ \E url \in env.urls : ResolveCall(t, url)
    \/ ResolveStat(t)
    \/ \E size \in env.sizes, status \in Statuses : ResolveDownloaded(t, size, status)
    \/ ResolveDownloadThrows(t)
    \/ ResolveStat2(t)
    \/ \E flag \in BOOLEAN : SetEnabledCall(t, flag)
    \/ SetEnabledStored(t)
    \/ ClearStat(t)
    \/ ClearDelete(t)
    \/ ClearMkdir(t)

SpecDisable == InitDisable /\ [][NextDisable]_vars

(***************************************************************************)
(* A start of the app after the user has disabled the cache: the stored    *)
(* flag is "false", the directory is there and empty, and the screens call *)
(* getCachedImageUri while the constructor's calls are still pending.      *)
(***************************************************************************)
RaceUrls == { <<"s", "/", "a">>, <<"s", "/", "b">> }

InitRace ==
  /\ dirExists = TRUE
  /\ files = << >>
  /\ stored = "false"
  /\ isEnabled = TRUE
  /\ cacheSize = 0
  /\ task = Constructed
  /\ failures = 0
  /\ env = [callers |-> {"ui1"}, urls |-> RaceUrls, sizes |-> FileSizes, race |-> TRUE]
  /\ app = Installed
  /\ watch = NoWatchlist

NextRace ==
  \E t \in Tasks :
    \/ SetupStat(t)
    \/ LoadGetItem(t)
    \/ CalcStat(t)
    \/ Return(t)
    \/ \E url \in env.urls : ResolvePassThrough(t, url)
    \/ \E url \in env.urls : ResolveCall(t, url)
    \/ ResolveStat(t)
    \/ \E size \in env.sizes, status \in Statuses : ResolveDownloaded(t, size, status)
    \/ ResolveDownloadThrows(t)
    \/ ResolveStat2(t)

SpecRace == InitRace /\ [][NextRace]_vars

(***************************************************************************)
(* Analytics: UserPreferencesService keeps the analyticsEnabled            *)
(* preference, AnalyticsService records events while its copy of the       *)
(* preference is true. One call is pending at a time.                      *)
(***************************************************************************)
\* private maxStoredEvents = 100
maxStoredEvents == 100

\* The number of events recorded in a run.
MaxEvents == 2

EventTypes == {"view_settings", "change_settings"}

\* this.events.slice(-this.maxStoredEvents) when there are too many.
LastEvents(events) ==
  IF Len(events) > maxStoredEvents
  THEN SubSeq(events, Len(events) - maxStoredEvents + 1, Len(events))
  ELSE events

\* AnalyticsService.initialize after UserPreferencesService.initialize has
\* returned: it copies the preference, subscribes, and asks loadEvents.
AnalyticsPrefsRead(a, enabled) ==
  [a EXCEPT !.analyticsEnabled = enabled, !.subscribed = TRUE, !.pc = "a_load"]

\* A screen calls UserPreferencesService.initialize(), which asks getItem.
PrefsInitializeCall ==
  /\ app.pc = "idle" /\ ~app.prefsInitialized
  /\ app' = [app EXCEPT !.pc = "p_getItem", !.op = "prefs"]
  /\ UNCHANGED <<cacheVars, watch>>

\* The settings screen calls AnalyticsService.initialize(), which awaits
\* UserPreferencesService.initialize() first.
AnalyticsInitializeCall ==
  /\ app.pc = "idle" /\ ~app.initialized
  /\ app' = IF app.prefsInitialized
            THEN AnalyticsPrefsRead([app EXCEPT !.op = "analytics"], app.prefsAnalytics)
            ELSE [app EXCEPT !.pc = "p_getItem", !.op = "analytics"]
  /\ UNCHANGED <<cacheVars, watch>>

\* getItem(ANALYTICS_ENABLED_KEY) answers: a stored value replaces the
\* default, and the preferences are initialized.
PrefsGetItem ==
  /\ app.pc = "p_getItem"
  /\ LET enabled == IF app.analyticsStored # "null" THEN app.analyticsStored = "true"
                    ELSE app.prefsAnalytics
         read == [app EXCEPT !.prefsAnalytics = enabled, !.prefsInitialized = TRUE]
     IN  app' = IF app.op = "analytics" THEN AnalyticsPrefsRead(read, enabled)
                ELSE [read EXCEPT !.pc = "done"]
  /\ UNCHANGED <<cacheVars, watch>>

\* loadEvents: getItem(ANALYTICS_STORAGE_KEY) answers. startSession returns at
\* once when analytics are disabled, and asks setItem(SESSION_START_KEY)
\* otherwise.
AnalyticsLoadEvents ==
  /\ app.pc = "a_load"
  /\ LET loaded == [app EXCEPT !.events = IF app.savedEvents # << >>
                                          THEN app.savedEvents ELSE app.events]
     IN  app' = IF loaded.analyticsEnabled
                THEN [loaded EXCEPT !.pc = "a_session"]
                ELSE [loaded EXCEPT !.initialized = TRUE, !.pc = "done"]
  /\ UNCHANGED <<cacheVars, watch>>

\* startSession: setItem is done; its trackEvent(APP_OPEN) returns at once,
\* initialized being false still; initialize then sets initialized.
AnalyticsSessionStored ==
  /\ app.pc = "a_session"
  /\ app' = [app EXCEPT !.initialized = TRUE, !.pc = "done"]
  /\ UNCHANGED <<cacheVars, watch>>

\* if (!this.analyticsEnabled || !this.initialized) return;
TrackingOff(a) == ~a.analyticsEnabled \/ ~a.initialized

\* A screen calls trackEvent(type): the event is pushed and saveEvents asks
\* setItem, unless tracking is off.
TrackEventCall(type) ==
  /\ app.pc = "idle"
  /\ Len(app.events) < MaxEvents
  /\ app' = IF TrackingOff(app) THEN [app EXCEPT !.pc = "done", !.op = "trackEvent"]
            ELSE [app EXCEPT !.events = LastEvents(Append(app.events, type)),
                             !.pc = "e_save", !.op = "trackEvent"]
  /\ UNCHANGED <<cacheVars, watch>>

\* saveEvents: setItem(ANALYTICS_STORAGE_KEY, JSON.stringify(this.events)) is
\* done.
TrackEventSaved ==
  /\ app.pc = "e_save"
  /\ app' = [app EXCEPT !.savedEvents = app.events, !.pc = "done"]
  /\ UNCHANGED <<cacheVars, watch>>

\* The user flips the analytics switch: setAnalyticsEnabled(flag) sets the
\* preference and asks setItem.
SetAnalyticsEnabledCall(flag) ==
  /\ app.pc = "idle"
  /\ app' = [app EXCEPT !.prefsAnalytics = flag, !.flag = flag,
                        !.choice = IF flag THEN "on" ELSE "off",
                        !.pc = "n_setItem", !.op = "setAnalyticsEnabled"]
  /\ UNCHANGED <<cacheVars, watch>>

\* setItem is done; notifyListeners calls AnalyticsService's callback when it
\* has subscribed.
SetAnalyticsEnabledStored ==
  /\ app.pc = "n_setItem"
  /\ app' = [app EXCEPT !.analyticsStored = BoolToString(app.flag),
                        !.analyticsEnabled = IF app.subscribed THEN app.prefsAnalytics
                                             ELSE app.analyticsEnabled,
                        !.pc = "done"]
  /\ UNCHANGED <<cacheVars, watch>>

\* The pending call has returned to the screen.
AppReturn ==
  /\ app.pc = "done"
  /\ app' = [app EXCEPT !.pc = "idle", !.op = "none"]
  /\ UNCHANGED <<cacheVars, watch>>

\* The app is started again: both singletons are new, AsyncStorage stays.
AppRestart ==
  /\ app.pc = "idle"
  /\ app.prefsInitialized \/ app.initialized \/ app.events # << >>
  /\ app' = [f \in DOMAIN app |-> IF f \in DOMAIN Launched THEN Launched[f] ELSE app[f]]
  /\ UNCHANGED <<cacheVars, watch>>

NextAnalytics ==
  \/ PrefsInitializeCall
  \/ AnalyticsInitializeCall
  \/ PrefsGetItem
  \/ AnalyticsLoadEvents
  \/ AnalyticsSessionStored
  \/ \E type \in EventTypes : TrackEventCall(type)
  \/ TrackEventSaved
  \/ \E flag \in BOOLEAN : SetAnalyticsEnabledCall(flag)
  \/ SetAnalyticsEnabledStored
  \/ AppReturn
  \/ AppRestart

\* The image cache is left as constructed.
SpecAnalytics == Init /\ [][NextAnalytics]_vars

(***************************************************************************)
(* WatchlistService: addToWatchlist, removeFromWatchlist and               *)
(* clearWatchlist, called by the screens' handlers. A handler awaits its   *)
(* call, but two handlers (two cards tapped one after the other, the       *)
(* details screen and the watchlist tab) do not wait for each other.       *)
(***************************************************************************)
\* getWatchlist: watchlistJson ? JSON.parse(watchlistJson) : []
ParsedWatchlist == IF watch.present THEN watch.shows ELSE << >>

\* currentWatchlist.some(item => item.id === show.id)
InList(list, s) == \E i \in 1..Len(list) : list[i] = s

\* currentWatchlist.filter(show => show.id !== showId)
WithoutShow(list, s) == SelectSeq(list, LAMBDA id : id # s)

\* A call of op for show s is pending in a handler other than c.
OtherPending(c, op, s) ==
  \E d \in WatchCallers \ {c} :
    /\ watch.call[d].pc \notin {"idle", "done"}
    /\ watch.call[d].op = op
    /\ op = "clear" \/ watch.call[d].show = s

\* A handler calls addToWatchlist(show): getWatchlist asks getItem.
AddToWatchlistCall(c, s) ==
  /\ watch.call[c].pc = "idle"
  /\ watch' = [watch EXCEPT
                 !.call[c] = [NoCall EXCEPT !.pc = "a_get", !.op = "add", !.show = s],
                 !.removed[s] = FALSE]
  /\ UNCHANGED <<cacheVars, app>>

\* getItem answers: a show that is in the list returns false; otherwise the
\* list with the show appended goes to setItem.
AddToWatchlistGot(c) ==
  /\ watch.call[c].pc = "a_get"
  /\ LET r == watch.call[c]
     IN  watch' = [watch EXCEPT
                     !.call[c] =
                       IF InList(ParsedWatchlist, r.show)
                       THEN [r EXCEPT !.pc = "done", !.result = FALSE]
                       ELSE [r EXCEPT !.pc = "a_set",
                                      !.updated = Append(ParsedWatchlist, r.show)]]
  /\ UNCHANGED <<cacheVars, app>>

\* setItem is done: addToWatchlist returns true.
AddToWatchlistStored(c) ==
  /\ watch.call[c].pc = "a_set"
  /\ LET r == watch.call[c]
     IN  watch' = [watch EXCEPT
                     !.present = TRUE,
                     !.shows = r.updated,
                     !.call[c] = [r EXCEPT !.pc = "done", !.result = TRUE],
                     !.added[r.show] = /\ ~OtherPending(c, "remove", r.show)
                                       /\ ~OtherPending(c, "clear", r.show)]
  /\ UNCHANGED <<cacheVars, app>>

\* A handler calls removeFromWatchlist(showId): getWatchlist asks getItem.
RemoveFromWatchlistCall(c, s) ==
  /\ watch.call[c].pc = "idle"
  /\ watch' = [watch EXCEPT
                 !.call[c] = [NoCall EXCEPT !.pc = "r_get", !.op = "remove", !.show = s],
                 !.added[s] = FALSE]
  /\ UNCHANGED <<cacheVars, app>>

\* getItem answers: the list without the show goes to setItem.
RemoveFromWatchlistGot(c) ==
  /\ watch.call[c].pc = "r_get"
  /\ LET r == watch.call[c]
     IN  watch' = [watch EXCEPT
                     !.call[c] = [r EXCEPT !.pc = "r_set",
                                           !.updated = WithoutShow(ParsedWatchlist, r.show)]]
  /\ UNCHANGED <<cacheVars, app>>

\* setItem is done: removeFromWatchlist returns true.
RemoveFromWatchlistStored(c) ==
  /\ watch.call[c].pc = "r_set"
  /\ LET r == watch.call[c]
     IN  watch' = [watch EXCEPT
                     !.present = TRUE,
                     !.shows = r.updated,
                     !.call[c] = [r EXCEPT !.pc = "done", !.result = TRUE],
                     !.removed[r.show] = ~OtherPending(c, "add", r.show)]
  /\ UNCHANGED <<cacheVars, app>>

\* The watchlist tab calls clearWatchlist(), which asks removeItem.
ClearWatchlistCall(c) ==
  /\ watch.call[c].pc = "idle"
  /\ watch' = [watch EXCEPT
                 !.call[c] = [NoCall EXCEPT !.pc = "c_remove", !.op = "clear"],
                 !.added = [s \in ShowIds |-> FALSE]]
  /\ UNCHANGED <<cacheVars, app>>

\* removeItem is done: clearWatchlist returns true.
ClearWatchlistRemoved(c) ==
  /\ watch.call[c].pc = "c_remove"
  /\ watch' = [watch EXCEPT
                 !.present = FALSE,
                 !.shows = << >>,
                 !.call[c] = [watch.call[c] EXCEPT !.pc = "done", !.result = TRUE]]
  /\ UNCHANGED <<cacheVars, app>>

\* The handler has taken the result.
WatchReturn(c) ==
  /\ watch.call[c].pc = "done"
  /\ watch' = [watch EXCEPT !.call[c] = NoCall]
  /\ UNCHANGED <<cacheVars, app>>

NextWatch ==
  \E c \in WatchCallers :
    \/ \E s \in ShowIds : AddToWatchlistCall(c, s)
    \/ AddToWatchlistGot(c)
    \/ AddToWatchlistStored(c)
    \/ \E s \in ShowIds : RemoveFromWatchlistCall(c, s)
    \/ RemoveFromWatchlistGot(c)
    \/ RemoveFromWatchlistStored(c)
    \/ ClearWatchlistCall(c)
    \/ ClearWatchlistRemoved(c)
    \/ WatchReturn(c)

\* The image cache and the analytics are left as constructed.
SpecWatch == Init /\ [][NextWatch]_vars

(***************************************************************************)
(* The properties.                                                         *)
(***************************************************************************)
\* The bytes actually in the cache directory.
StoreTotal == SumSizes(files)

TrimPcs == {"t_readdir", "t_stat", "t_delete", "k_stat"}

\* t is inside the trimCache its resolve has called.
InTrim(t) == task[t].op = "resolve" /\ task[t].trimmed /\ task[t].pc \in TrimPcs

\* This step is the return of t's trimCache.
TrimReturns(t) == InTrim(t) /\ task'[t].pc \notin TrimPcs

\* This step is trimCache's deleteAsync of t's current entry succeeding.
TrimDeletes(t) ==
  /\ InTrim(t) /\ task[t].pc = "t_delete"
  /\ task'[t].idx = task[t].idx + 1

\* This step is trimCache's deleteAsync of t's current entry rejecting
\* although the file is there.
TrimDeleteFails(t) ==
  /\ InTrim(t) /\ task[t].pc = "t_delete"
  /\ failures' = failures + 1

\* This step is caller t calling getCachedImageUri(url).
CallsResolve(t, url) ==
  /\ task[t].pc = "idle"
  /\ task'[t].op = "resolve"
  /\ task'[t].url = url

\* The step changes nothing on disk and not the counter.
NothingStored == files' = files /\ dirExists' = dirExists /\ cacheSize' = cacheSize

\* C1: whenever no call is pending, the files in the cache directory add up
\* to at most MAX_CACHE_SIZE, whichever path wrote them.
C1_BoundedStorage == Quiescent => StoreTotal <= MAX_CACHE_SIZE

\* C2: whenever updateCacheSize has pushed cacheSize over MAX_CACHE_SIZE, the
\* trimCache it calls leaves cacheSize at or below 0.7 * MAX_CACHE_SIZE when
\* it returns.
C2_TrimReachesTarget ==
  [][\A t \in Tasks : TrimReturns(t) => cacheSize' <= targetSize]_vars

\* C3: trimCache deletes an entry only while its running total is above the
\* target, and never one more than is needed to bring the bytes actually in
\* the directory to the target: every delete finds both totals above it.
C3_EvictionMinimal ==
  [][\A t \in Tasks :
       TrimDeletes(t) => task[t].cur > targetSize /\ StoreTotal > targetSize]_vars

\* C4: trimCache deletes in ascending order of the real last-write time:
\* every file it deletes is the oldest one in the directory.
C4_OldestFirst ==
  [][\A t \in Tasks :
       TrimDeletes(t) => files[1].name = task[t].infos[task[t].idx].name]_vars

\* The scenario of C5 at the scale of the code's fixed limit, 1000 being
\* MAX_CACHE_SIZE: a, b and c, 0.4 of the limit each, were written in this
\* order, cacheSize is 1.2 times the limit, and t trims alone.
Scenario(t) ==
  /\ InTrim(t) /\ task[t].alone
  /\ task[t].names = << <<"a">>, <<"b">>, <<"c">> >>
  /\ task[t].pc \in {"t_delete", "k_stat"}
  /\ \A i \in 1..Len(task[t].infos) : task[t].infos[i].size = 40 * MB
  /\ Len(task[t].infos) = 3
  /\ task[t].cur = 120 * MB - 40 * MB * (task[t].idx - 1)

\* C5: in the scenario trimCache deletes a, then b, then stops: c survives
\* alone, with 0.4 of the limit in the directory.
C5_Scenario ==
  \A t \in Tasks :
    Scenario(t) =>
      /\ task[t].pc = "t_delete" /\ task[t].idx = 1 => task[t].infos[1].name = <<"a">>
      /\ task[t].pc = "t_delete" /\ task[t].idx = 2 => task[t].infos[2].name = <<"b">>
      /\ task[t].pc = "t_delete" => task[t].idx <= 2
      /\ task[t].pc = "k_stat" => files = << [name |-> <<"c">>, size |-> 40 * MB] >>

\* C6: when the delete of one entry fails, trimCache skips the entry and goes
\* on with the next one, or with the final recount when it was the last.
C6_SkipsFailedDelete ==
  [][\A t \in Tasks :
       TrimDeleteFails(t) =>
         /\ task'[t].pc \in {"t_delete", "k_stat"}
         /\ task'[t].idx = task[t].idx + 1]_vars

\* C7: with the cache enabled, when a caller resolves a URL twice in a row and
\* the first call has fetched the image and returned its local reference, the
\* second call is a hit: it fetches nothing and returns the same reference.
C7_IdempotentHit ==
  \A t \in Tasks :
    ( /\ task[t].pc = "done" /\ task[t].op = "resolve"
      /\ task[t].again /\ task[t].alone
      /\ task[t].first.kind = "local" /\ task[t].first.fetched
      /\ isEnabled )
    => /\ ~task[t].fetched
       /\ task[t].kind = "local"
       /\ task[t].ref = task[t].first.ref

\* C8: while the cache is disabled, getCachedImageUri(url) of a non-empty url
\* returns url at once: no fetch, no file written, directory and counter as
\* they were.
C8_DisabledPassThrough ==
  [][\A t \in Tasks : \A url \in Urls \ {EmptyUrl} :
       CallsResolve(t, url) /\ ~isEnabled =>
         /\ task'[t].pc = "done"
         /\ task'[t].kind = "remote" /\ task'[t].ref = url
         /\ ~task'[t].fetched
         /\ NothingStored]_vars

C8_Witness ==
  \E t \in Tasks :
    /\ task[t].pc = "done" /\ task[t].op = "resolve"
    /\ task[t].url # EmptyUrl /\ ~isEnabled
    /\ task[t].kind = "remote" /\ task[t].ref = task[t].url
    /\ stored = "false"

\* C9: getCachedImageUri of the empty URL returns the empty URL at once,
\* without a file-system or network call, enabled or not.
C9_EmptyUrl ==
  [][\A t \in Tasks :
       CallsResolve(t, EmptyUrl) =>
         /\ task'[t].pc = "done"
         /\ task'[t].kind = "remote" /\ task'[t].ref = EmptyUrl
         /\ ~task'[t].fetched
         /\ NothingStored]_vars

C9_Witness ==
  \E t \in Tasks :
    /\ task[t].pc = "done" /\ task[t].op = "resolve"
    /\ task[t].url = EmptyUrl /\ isEnabled
    /\ task[t].kind = "remote" /\ task[t].ref = EmptyUrl

\* C10: when the download of a resolve miss fails (downloadAsync rejects, or
\* resolves with a status that is not 200, which is what CachedImage calls a
\* failed download), the call returns the remote URL.
C10_FetchFailureFallback ==
  \A t \in Tasks :
    ( /\ task[t].pc = "done" /\ task[t].op = "resolve"
      /\ task[t].fetched /\ task[t].status # 200 )
    => task[t].kind = "remote" /\ task[t].ref = task[t].url

\* t's call of op has returned to its caller, and no other call was pending
\* while it ran.
ReturnedAlone(t, op) ==
  task[t].pc = "done" /\ task[t].op = op /\ task[t].alone

\* C11: when clearCache has returned, whatever the state it started from,
\* cacheSize is 0 and the cache directory exists and is empty.
C11_ClearResets ==
  \A t \in Tasks :
    ReturnedAlone(t, "clearCache") =>
      cacheSize = 0 /\ dirExists /\ files = << >>

\* C12: when setEnabled(false) has returned, the stored flag is "false",
\* isEnabled is false, the cache directory holds no file and cacheSize is 0.
C12_DisableClears ==
  \A t \in Tasks :
    ( /\ ReturnedAlone(t, "setEnabled") /\ ~task[t].flag
      /\ task[t].kind = "void" /\ task[t].seen = << >> )
    => /\ stored = "false" /\ ~isEnabled
       /\ files = << >> /\ cacheSize = 0

\* C13: when a caller has called setEnabled(v) twice in a row and both calls
\* have returned, the flag, the stored flag, the files and cacheSize are as
\* the first call left them.
C13_SetEnabledIdempotent ==
  \A t \in Tasks :
    ( /\ ReturnedAlone(t, "setEnabled") /\ task[t].seen # << >>
      /\ task[t].seen[1] = "void" /\ task[t].kind = "void" )
    => LET once == task[t].seen[2]
       IN  /\ isEnabled = once[1] /\ stored = once[2]
           /\ files = once[4] /\ cacheSize = once[5]

\* This step ends loadSettings, the last of the constructor's calls to end
\* or not.
InitCompletes(t) == task[t].op = "load" /\ task'[t].pc = "idle"

\* C14: when loadSettings ends, the cache is disabled exactly when getItem
\* answered "false"; with no stored value, or when getItem rejected, it is
\* enabled.
C14_InitFlag ==
  [][\A t \in Tasks :
       InitCompletes(t) =>
         isEnabled' = IF task[t].pc = "g_getItem" THEN TRUE
                      ELSE stored' # "false"]_vars

C14_Witness ==
  /\ Quiescent
  /\ stored = "false" /\ ~isEnabled
  /\ files # << >> /\ cacheSize = StoreTotal

\* C15: when loadSettings ends, cacheSize is the sum of the sizes of the
\* files in the cache directory, also when getItem rejected.
C15_InitResync ==
  [][\A t \in Tasks : InitCompletes(t) => cacheSize' = StoreTotal']_vars

\* C16: no call of getCachedImageUri, setEnabled, clearCache or
\* calculateCacheSize ends by throwing to its caller.
C16_NoThrow == \A t \in Tasks : task[t].pc = "done" => task[t].kind # "threw"

\* t and u called getCachedImageUri for the same key while cacheSize was the
\* same, both missed and fetched, neither trimmed, and both have returned:
\* their calls overlapped, as the second would have hit otherwise.
BothMissed(t, u) ==
  /\ t # u
  /\ \A v \in {t, u} :
       /\ task[v].pc = "done" /\ task[v].op = "resolve"
       /\ task[v].fetched /\ task[v].kind = "local" /\ ~task[v].trimmed
  /\ getFilenameFromUrl(task[t].url) = getFilenameFromUrl(task[u].url)
  /\ task[t].base = task[u].base

\* C17: when two overlapping getCachedImageUri calls for one URL have both
\* missed and both returned, the directory holds one file for the key and
\* cacheSize has grown by the size of that one file.
C17_ConcurrentMiss ==
  \A t, u \in UiTasks :
    BothMissed(t, u) =>
      LET key == getFilenameFromUrl(task[t].url)
      IN  /\ Cardinality({i \in 1..Len(files) : files[i].name = key}) = 1
          /\ cacheSize = task[t].base + SizeOf(key)

\* How far cacheSize is from the bytes in the cache directory.
Drift ==
  IF cacheSize >= StoreTotal THEN cacheSize - StoreTotal ELSE StoreTotal - cacheSize

\* C18: however the calls follow each other, cacheSize stays within a fixed
\* distance of the bytes in the cache directory; the distance allowed here is
\* the whole of MAX_CACHE_SIZE, the most the cache is meant to hold.
C18_BoundedDrift == Quiescent => Drift <= MAX_CACHE_SIZE

\* The characters a key may hold.
AllowedInKey == LowerCase \cup UpperCase \cup Digits \cup {".", "_"}

\* The trailing path segment of url: its longest suffix without a slash.
IsTrailingSegment(seg, url) ==
  /\ Len(seg) <= Len(url)
  /\ seg = SubSeq(url, Len(url) - Len(seg) + 1, Len(url))
  /\ \A i \in 1..Len(seg) : seg[i] # "/"
  /\ Len(seg) < Len(url) => url[Len(url) - Len(seg)] = "/"

\* key is seg with every character outside A-Z, a-z, 0-9 and '.' replaced by
\* the placeholder.
IsKeyOfSegment(key, seg) ==
  /\ Len(key) = Len(seg)
  /\ \A i \in 1..Len(seg) :
       /\ key[i] \in AllowedInKey
       /\ key[i] = IF seg[i] \in AllowedInKey \ {"_"} THEN seg[i] ELSE "_"

IsKeyOf(key, url) ==
  \E n \in 0..Len(url) :
    LET seg == SubSeq(url, Len(url) - n + 1, Len(url))
    IN  IsTrailingSegment(seg, url) /\ IsKeyOfSegment(key, seg)

RecordsEvent ==
  \/ app.pc = "idle" /\ app'.pc = "e_save"
  \/ app'.savedEvents # app.savedEvents

\* C20: an analytics event is recorded or persisted only when the user has
\* switched analytics on; on a fresh install, with no stored preference,
\* trackEvent records nothing.
C20_AnalyticsOptIn == [][RecordsEvent => app.choice = "on"]_vars

\* The three await points of clearCache.
ClearPcs == {"c_stat", "c_delete", "c_mkdir"}

\* This step is a step of t's call (its start, one of its awaits, its return).
Steps(t) == task'[t] # task[t]

\* This step starts the app again: a new singleton, with its own counter.
Restarts == Quiescent /\ task' = Constructed

\* This step is updateCacheSize adding a size, a step of trimCache, or a step
\* of clearCache.
CountingStep(t) ==
  /\ Steps(t)
  /\ task[t].pc = "r_stat2" \/ InTrim(t) \/ task[t].pc \in ClearPcs

\* This step is one the counter and the directory have no part in: a hit, a
\* call that returns its url at once, a download that fails (it rejects, or
\* its status is not 200), a step of setEnabled(true), or a getter.
FrameStep(t) ==
  /\ Steps(t)
  /\ \/ task[t].pc = "r_stat" /\ task'[t].pc = "done"
     \/ task[t].pc \in {"idle", "done"} /\ task'[t].op = "resolve" /\ task'[t].pc = "done"
     \/ task[t].pc = "r_download" /\ task'[t].status # 200
     \/ task'[t].op = "setEnabled" /\ task'[t].flag
     \/ task'[t].op \in {"isImageCacheEnabled", "getCacheSizeInMB"}

\* C21: cacheSize changes only in a step of updateCacheSize, trimCache or
\* clearCache; a hit, a pass-through, a failed download, setEnabled(true),
\* isImageCacheEnabled() and getCacheSizeInMB() leave cacheSize and the
\* directory as they were.
C21_FrameEffect ==
  [][/\ cacheSize' # cacheSize /\ ~Restarts => \E t \in Tasks : CountingStep(t)
     /\ \A t \in Tasks : FrameStep(t) => NothingStored]_vars

\* This step is the second getInfoAsync of t's miss answering, with the
\* downloaded file there: updateCacheSize(fileInfo.size) runs.
RecordsWrite(t) ==
  /\ Steps(t) /\ task[t].pc = "r_stat2"
  /\ Exists(getFilenameFromUrl(task[t].url))

\* C22: updateCacheSize adds the size of the new file to cacheSize and calls
\* trimCache exactly when the sum is strictly greater than MAX_CACHE_SIZE;
\* when the sum is MAX_CACHE_SIZE or less the call returns with every file,
\* the new one included, still there.
C22_RecordWrite ==
  [][\A t \in Tasks :
       RecordsWrite(t) =>
         LET key == getFilenameFromUrl(task[t].url)
         IN  /\ cacheSize' = cacheSize + SizeOf(key)
             /\ files' = files
             /\ task'[t].pc = "t_readdir" <=> cacheSize' > MAX_CACHE_SIZE
             /\ task'[t].trimmed <=> cacheSize' > MAX_CACHE_SIZE
             /\ cacheSize' <= MAX_CACHE_SIZE =>
                  task'[t].pc = "done" /\ task'[t].kind = "local"]_vars

\* A write has brought cacheSize to MAX_CACHE_SIZE exactly, the three files
\* are there and the call has returned without trimming.
C22_Witness ==
  \E t \in Tasks :
    /\ task[t].pc = "done" /\ task[t].op = "resolve"
    /\ task[t].fetched /\ ~task[t].trimmed
    /\ cacheSize = MAX_CACHE_SIZE /\ StoreTotal = MAX_CACHE_SIZE
    /\ Len(files) = 3

\* C23: whenever trimCache returns, cacheSize is the sum of the sizes of the
\* files then in the directory, also when a deleteAsync rejected in the loop
\* and when the listing was empty.
C23_TrimResync ==
  [][\A t \in Tasks : TrimReturns(t) => cacheSize' = StoreTotal']_vars

\* t has called getCachedImageUri with one url and then with another one of
\* the same trailing segment; the first call fetched the image and returned
\* its local reference, and the second call has returned.
Collided(t) ==
  /\ task[t].pc = "done" /\ task[t].op = "resolve" /\ task[t].again
  /\ task[t].first.url # task[t].url
  /\ LastPart(task[t].first.url) = LastPart(task[t].url)
  /\ task[t].first.kind = "local" /\ task[t].first.fetched

\* C24: two distinct URLs with the same trailing segment have the same key,
\* so when the first has been resolved, the call for the second is a hit: it
\* fetches nothing and returns the file written for the first.
C24_KeyCollision ==
  \A t \in Tasks :
    Collided(t) =>
      /\ getFilenameFromUrl(task[t].first.url) = getFilenameFromUrl(task[t].url)
      /\ ~task[t].fetched
      /\ task[t].kind = "local" /\ task[t].ref = task[t].first.ref

\* C25: when a getCachedImageUri call that missed and downloaded returns the
\* local reference, the file it refers to is in the cache directory: the
\* trimCache that the write has triggered has not deleted it.
C25_WrittenSurvivesTrim ==
  \A t \in Tasks :
    ( /\ ReturnedAlone(t, "resolve")
      /\ task[t].fetched /\ task[t].kind = "local" )
    => Exists(task[t].ref)

\* C26: when the stored flag is "false" at the start of the app, no
\* getCachedImageUri call fetches or writes a file, a call made before
\* loadSettings has finished included.
C26_StartupRace ==
  stored = "false" =>
    /\ files = << >>
    /\ \A t \in Tasks : task[t].op = "resolve" => ~task[t].fetched

\* C27: whenever the cache is disabled and no call is pending, the cache
\* directory holds no file and cacheSize is 0, also when setEnabled(false)
\* has run while a download that started with the cache enabled was pending.
C27_NoStaleCache ==
  Quiescent /\ ~isEnabled => files = << >> /\ cacheSize = 0

\* No setEnabled call is pending (one that has returned or thrown is not),
\* and the constructor's loadSettings has ended.
NoSetEnabledPending ==
  /\ \A t \in Tasks : task[t].op = "setEnabled" => task[t].pc = "done"
  /\ \A t \in InitTasks : ~InFlight(t)

\* C28: whenever no setEnabled call is pending, isEnabled is the flag that
\* AsyncStorage holds (enabled when nothing is stored), also after a
\* setEnabled call whose setItem rejected: the stored flag is then as before
\* the call, and so is isEnabled.
C28_FlagConsistency == NoSetEnabledPending => isEnabled = (stored # "false")

\* C29: a getCachedImageUri call with a non-empty url looks up a non-empty
\* key, a file inside the cache directory, and a hit never returns the
\* directory itself: a url that ends in '/' is not a hit.
C29_KeyNonEmpty ==
  \A t \in Tasks :
    task[t].op = "resolve" /\ task[t].url # EmptyUrl =>
      /\ task[t].pc # "done" => getFilenameFromUrl(task[t].url) # << >>
      /\ task[t].pc = "done" /\ task[t].kind = "local" => task[t].ref # << >>

\* The stored watchlist holds no show twice.
NoDuplicateShow ==
  \A i, j \in 1..Len(watch.shows) : i # j => watch.shows[i] # watch.shows[j]

\* C30: however addToWatchlist, removeFromWatchlist and clearWatchlist calls
\* follow or overlap each other, the stored watchlist never holds a show
\* twice, a show whose add returned true and that was not removed afterwards
\* is in the list, and a show whose remove returned true and that was not
\* added afterwards is not.
C30_WatchlistUnique ==
  /\ NoDuplicateShow
  /\ \A s \in ShowIds : watch.added[s] => InList(ParsedWatchlist, s)
  /\ \A s \in ShowIds : watch.removed[s] => ~InList(ParsedWatchlist, s)
====
